---- MODULE Spec2Model ----
(***************************************************************************)
(* A model of table.py: the layout and rendering engine of TableThingy.    *)
(*                                                                         *)
(* Representation.  A Python str is a sequence of glyphs; a glyph is a     *)
(* one-element TLA+ string, the line break is the glyph NL.  The empty     *)
(* str is << >>.  The box-drawing glyphs of the source are written with    *)
(* ASCII stand-ins (see the glyph definitions below).  An alignment ratio  *)
(* (a float in [0,1]) is a rational << num, den >>, so floor(align * n)    *)
(* is exact integer arithmetic.  An exception that leaves a function is    *)
(* the value StopIteration, RuntimeError or ValueError in place of the     *)
(* function's result.                                                      *)
(***************************************************************************)
EXTENDS Integers, Sequences, FiniteSets, TLC

VARIABLES entry, pc, error, data, tab_fmt, contents, row_heights, col_widths,
          rows, cell, pad, string

vars == << entry, pc, error, data, tab_fmt, contents, row_heights, col_widths,
           rows, cell, pad, string >>

-----------------------------------------------------------------------------
(* Glyphs *)

NL == "\n"
SPACE == " "

\* "─", "│" and the three junction sets "┌┬┐", "├┼┤", "└┴┘"
BOX_H == "-"
BOX_V == "|"
BOX_TOP == << "tl", "tm", "tr" >>
BOX_CENTER == << "ml", "+", "mr" >>
BOX_BOTTOM == << "bl", "bm", "br" >>

\* the values that stand for an exception leaving a function
StopIteration == << "StopIteration" >>
RuntimeError == << "RuntimeError" >>
ValueError == << "ValueError" >>
IndexError == << "IndexError" >>

IsRaised(s) == s \in { StopIteration, RuntimeError, ValueError, IndexError }

-----------------------------------------------------------------------------
(* Python built-ins the source relies on *)

Max2(a, b) == IF a >= b THEN a ELSE b
Min2(a, b) == IF a <= b THEN a ELSE b

\* n * s for a str s: n copies of s, the empty str when n <= 0
RECURSIVE StrTimes(_, _)
StrTimes(s, n) == IF n <= 0 THEN << >> ELSE s \o StrTimes(s, n - 1)

\* the concatenation of a list of strs
RECURSIVE Concat(_)
Concat(ss) == IF ss = << >> THEN << >> ELSE Head(ss) \o Concat(Tail(ss))

\* item i (1-based) of a list, the fill value "" of zip_longest past its end
ItemOr(it, i) == IF i <= Len(it) THEN it[i] ELSE << >>

\* the position of the first line break of s, 0 when it has none
FirstNL(s) ==
    IF \E i \in 1..Len(s) : s[i] = NL
    THEN CHOOSE i \in 1..Len(s) : s[i] = NL /\ \A j \in 1..(i - 1) : s[j] # NL
    ELSE 0

\* str.splitlines(): a break ends a line, so a final break opens no new line
RECURSIVE splitlines(_)
SplitAt(s, i) ==
    IF i = 0 THEN << s >>
    ELSE << SubSeq(s, 1, i - 1) >> \o splitlines(SubSeq(s, i + 1, Len(s)))

splitlines(s) == IF s = << >> THEN << >> ELSE SplitAt(s, FirstNL(s))

\* str.count("\n")
count_nl(s) == Cardinality({ i \in 1..Len(s) : s[i] = NL })

\* str.removesuffix("\n")
removesuffix_nl(s) ==
    IF Len(s) > 0 /\ s[Len(s)] = NL THEN SubSeq(s, 1, Len(s) - 1) ELSE s

\* floor(align * n) for the ratio align = << num, den >>
FloorMul(align, n) == (align[1] * n) \div align[2]

\* max() of a non-empty list of ints
MaxOf(xs) == CHOOSE m \in { xs[i] : i \in 1..Len(xs) } : \A i \in 1..Len(xs) : xs[i] <= m

\* an optional int: << >> is None, << n >> is n
None == << >>
Some(n) == << n >>

slice(start, stop, step) == [start |-> start, stop |-> stop, step |-> step]

slice_step(s) == IF s.step = None THEN 1 ELSE s.step[1]
slice_lower(step) == IF step < 0 THEN -1 ELSE 0
slice_upper(step, length) == IF step < 0 THEN length - 1 ELSE length

slice_clamp(v, length, lower, upper) ==
    IF v < 0 THEN Max2(v + length, lower) ELSE Min2(v, upper)

slice_adjust(s, length, step, lower, upper) ==
    << IF s.start = None
       THEN (IF step < 0 THEN upper ELSE lower)
       ELSE slice_clamp(s.start[1], length, lower, upper),
       IF s.stop = None
       THEN (IF step < 0 THEN lower ELSE upper)
       ELSE slice_clamp(s.stop[1], length, lower, upper),
       step >>

\* slice.indices(length): the start, stop and step the slice means on a list
\* of that length
slice_indices(s, length) ==
    slice_adjust(s, length, slice_step(s), slice_lower(slice_step(s)),
                 slice_upper(slice_step(s), length))

\* i in range(start, stop, step)
in_range(i, start, stop, step) ==
    IF step > 0
    THEN i >= start /\ i < stop /\ (i - start) % step = 0
    ELSE i <= start /\ i > stop /\ (start - i) % (0 - step) = 0

range_positions(ind, length) ==
    { i \in 0..(length - 1) : in_range(i, ind[1], ind[2], ind[3]) }

\* the 0-based positions a slice selects in a list of the given length
slice_positions(s, length) == range_positions(slice_indices(s, length), length)

-----------------------------------------------------------------------------
(* Module-level functions *)

h_pad_join(text, fill, padding, lpad) ==
    StrTimes(fill, lpad) \o text \o StrTimes(fill, padding - lpad) \o << NL >>

\* h_pad with the left pad rounded to the nearest integer, ties to even
h_pad_round(text, width, align, fill) ==
    h_pad_join(text, fill, width - Len(text),
               IF (2 * align[1] * (width - Len(text))) % (2 * align[2]) = align[2]
               THEN 2 * (((align[1] * (width - Len(text))) \div align[2] + 1) \div 2)
               ELSE (2 * align[1] * (width - Len(text)) + align[2]) \div (2 * align[2]))

h_pad(text, width, align, fill) ==
    h_pad_join(text, fill, width - Len(text), FloorMul(align, width - Len(text)))

\* zip_longest(iter1, iter2, fillvalue="") joined pairwise
iter_join(iter1, iter2) ==
    Concat([i \in 1..Max2(Len(iter1), Len(iter2)) |-> ItemOr(iter1, i) \o ItemOr(iter2, i)])

-----------------------------------------------------------------------------
(* Content *)

\* len(max(widths, key=len))
LongestLen(widths) == MaxOf([i \in 1..Len(widths) |-> Len(widths[i])])

get_width(text) == IF splitlines(text) # << >> THEN LongestLen(splitlines(text)) ELSE 0

get_height(text) == IF text # << >> THEN count_nl(text) + 1 ELSE 0

Content(text) ==
    [text |-> text, width |-> get_width(text), height |-> get_height(text)]

PadBlock(lines, width) ==
    Concat([i \in 1..Len(lines) |-> h_pad(lines[i], width, << 0, 1 >>, << SPACE >>)])

Content_str(content) == PadBlock(splitlines(content.text), content.width)

-----------------------------------------------------------------------------
(* CellFormat and Cell *)

CellFormat(v_align, h_align, fill) ==
    [v_align |-> v_align, h_align |-> h_align, fill |-> fill]

DefaultCellFormat == CellFormat(<< 1, 2 >>, << 1, 2 >>, << SPACE >>)

\* range(start, end) as its two ends
RangeFrom(start, k) == << start, start + k >>

print_range(content, height, fmt) ==
    RangeFrom(FloorMul(fmt.v_align, height - content.height), content.height)

Cell(content, height, width, fmt) ==
    [content |-> content, height |-> height, width |-> width, fmt |-> fmt,
     print_lines |-> print_range(content, height, fmt)]

\* string += line, unless the rest of the loop raises
AddLine(line, rest) == IF IsRaised(rest) THEN rest ELSE line \o rest

\* the loop of Cell.__str__ from output row x on, with i content lines
\* already taken from content_iter; next() on the exhausted iterator raises
RECURSIVE CellLoop(_, _, _, _)
CellLoop(c, lines, x, i) ==
    IF x >= c.height THEN << >>
    ELSE IF x >= c.print_lines[1] /\ x < c.print_lines[2]
         THEN IF i >= Len(lines) THEN StopIteration
              ELSE AddLine(h_pad(lines[i + 1], c.width, c.fmt.h_align, c.fmt.fill),
                           CellLoop(c, lines, x + 1, i + 1))
         ELSE AddLine(h_pad(<< >>, c.width, c.fmt.h_align, c.fmt.fill),
                      CellLoop(c, lines, x + 1, i))

Cell_str(c) == CellLoop(c, splitlines(Content_str(c.content)), 0, 0)

-----------------------------------------------------------------------------
(* Divider *)

Divider(char, slices, default) ==
    [char |-> char, slices |-> slices, default |-> default]

\* Divider.chars for a char of exactly one glyph: the slice assignment then
\* replaces each selected position and leaves the list's length alone
CharsAt(div, n, sel) ==
    [i \in 1..n |-> IF (i - 1) \in sel THEN div.char ELSE div.default]

\* Divider.chars with the selector ignored: every position carries char
Divider_chars_all(div, length) == [i \in 1..Max2(length, 0) |-> div.char]

Divider_chars(div, length) ==
    CharsAt(div, Max2(length, 0), slice_positions(div.slices, Max2(length, 0)))

Divider_horizontal == Divider(<< BOX_H >>, slice(None, None, None), << SPACE >>)
Divider_vertical == Divider(<< BOX_V >>, slice(None, None, None), << SPACE >>)

-----------------------------------------------------------------------------
(* Row *)

Row(cells, v_div) == [cells |-> cells, v_div |-> v_div]

\* line_iter(cell) for every cell: the lines of str(cell), none when it raises
CellIters(strs) ==
    [c \in 1..Len(strs) |-> IF IsRaised(strs[c]) THEN << >> ELSE splitlines(strs[c])]

\* next(line) fails on some cell at some line of the row: str(cell) raised
\* inside the generator, or the generator is exhausted
RowFails(strs, iters, height) ==
    \E l \in 1..height : \E c \in 1..Len(strs) : IsRaised(strs[c]) \/ l > Len(iters[c])

RowLines(iters, chars, height) ==
    Concat([l \in 1..height |->
              iter_join([c \in 1..Len(iters) |-> iters[c][l]], chars) \o << NL >>])

RowJoin(strs, iters, chars, height) ==
    IF RowFails(strs, iters, height) THEN RuntimeError
    ELSE RowLines(iters, chars, height)

RowOf(strs, chars, height) == RowJoin(strs, CellIters(strs), chars, height)

Row_str(row) ==
    IF row.cells = << >> THEN IndexError
    ELSE RowOf([c \in 1..Len(row.cells) |-> Cell_str(row.cells[c])],
               Divider_chars(row.v_div, Len(row.cells) - 1),
               row.cells[1].height)

-----------------------------------------------------------------------------
(* JointChars and TableDecoration *)

JointChars(left, mid, right) == [left |-> left, mid |-> mid, right |-> right]

JointChars_top == JointChars(<< BOX_TOP[1] >>, << BOX_TOP[2] >>, << BOX_TOP[3] >>)
JointChars_center ==
    JointChars(<< BOX_CENTER[1] >>, << BOX_CENTER[2] >>, << BOX_CENTER[3] >>)
JointChars_bottom ==
    JointChars(<< BOX_BOTTOM[1] >>, << BOX_BOTTOM[2] >>, << BOX_BOTTOM[3] >>)

TableDecoration(h_div, v_div) ==
    [top_bord |-> JointChars_top, mid_bord |-> JointChars_center,
     bot_bord |-> JointChars_bottom, h_div |-> h_div, v_div |-> v_div]

DefaultTableDecoration == TableDecoration(Divider_horizontal, Divider_vertical)

\* g in tup
InTup(g, tup) == g = tup[1] \/ g = tup[2]

\* char_return without the junction: a crossing shows h_div's glyph
char_return_no_joint(dec, tup, none) ==
    IF InTup(dec.h_div.char, tup) THEN dec.h_div.char
    ELSE IF InTup(dec.v_div.char, tup) THEN dec.v_div.char
    ELSE none

char_return(dec, tup, none) ==
    IF InTup(dec.h_div.char, tup) /\ InTup(dec.v_div.char, tup) THEN dec.mid_bord.mid
    ELSE IF InTup(dec.h_div.char, tup) THEN dec.h_div.char
    ELSE IF InTup(dec.v_div.char, tup) THEN dec.v_div.char
    ELSE none

JointGrid(dec, hor_divs, ver_divs) ==
    [x \in 1..Len(hor_divs) |->
        [y \in 1..Len(ver_divs) |->
            char_return(dec, << hor_divs[x], ver_divs[y] >>, << SPACE >>)]]

joints(dec, height, width) ==
    JointGrid(dec, Divider_chars(dec.h_div, height), Divider_chars(dec.v_div, width))

TierLine(char, widths, j) ==
    iter_join([c \in 1..Len(widths) |-> StrTimes(char, widths[c])], j) \o << NL >>

Divisions(h_chars, js, widths) ==
    [t \in 1..Len(js) |-> TierLine(h_chars[t], widths, js[t])]

\* div_lines with one tier per row instead of one per row boundary
div_lines_per_row(dec, widths, tab_length) ==
    Divisions(Divider_chars(dec.h_div, tab_length),
              joints(dec, tab_length, Len(widths) - 1), widths)

div_lines(dec, widths, tab_length) ==
    Divisions(Divider_chars(dec.h_div, tab_length - 1),
              joints(dec, tab_length - 1, Len(widths) - 1), widths)

-----------------------------------------------------------------------------
(* Table *)

get_content(grid) ==
    [r \in 1..Len(grid) |-> [c \in 1..Len(grid[r]) |-> Content(grid[r][c])]]

\* max([]) raises ValueError, and with it the whole comprehension
get_row_heights_raises(conts) == \E r \in 1..Len(conts) : conts[r] = << >>

get_row_heights(conts) ==
    [r \in 1..Len(conts) |-> MaxOf([c \in 1..Len(conts[r]) |-> conts[r][c].height])]

\* The defaultdict of get_col_widths is the list of its keys in insertion
\* order and the value of each key.  Reading a missing key inserts it with 0.
DictRead(d, key) ==
    IF \E i \in 1..Len(d.keys) : d.keys[i] = key THEN d
    ELSE [keys |-> Append(d.keys, key), val |-> (key :> 0) @@ d.val]

\* the update of get_col_widths without its comparison: the last row wins
DictSetLast(d, key, cell_length) == [d EXCEPT !.val = (key :> cell_length) @@ d.val]

DictSetMax(d, key, cell_length) ==
    IF d.val[key] < cell_length
    THEN [d EXCEPT !.val = (key :> cell_length) @@ d.val]
    ELSE d

\* one pass of the inner loop: the cell in column col (0-based) of a row
ColStep(d, col, text) == DictSetMax(DictRead(d, col), col, text.width)

RECURSIVE RowLoop(_, _, _)
RowLoop(d, row, col) ==
    IF col >= Len(row) THEN d
    ELSE RowLoop(ColStep(d, col, row[col + 1]), row, col + 1)

RECURSIVE GridLoop(_, _, _)
GridLoop(d, conts, r) ==
    IF r > Len(conts) THEN d
    ELSE GridLoop(RowLoop(d, conts[r], 0), conts, r + 1)

\* list(widths.values())
DictValues(d) == [i \in 1..Len(d.keys) |-> d.val[d.keys[i]]]

get_col_widths(conts) ==
    DictValues(GridLoop([keys |-> << >>, val |-> << >>], conts, 1))

\* the cells of zip(col_widths, row): a short row is not padded
cell_list_zip(widths, row, height) ==
    [i \in 1..Min2(Len(widths), Len(row)) |->
        Cell(row[i], height, widths[i], DefaultCellFormat)]

\* the cells of zip_longest(col_widths, row, fillvalue=Content(""))
cell_list(widths, row, height) ==
    [i \in 1..Max2(Len(widths), Len(row)) |->
        Cell(IF i <= Len(row) THEN row[i] ELSE Content(<< >>),
             height,
             IF i <= Len(widths) THEN widths[i] ELSE Content(<< >>),
             DefaultCellFormat)]

get_rows(dec, heights, widths, conts) ==
    [r \in 1..Min2(Len(heights), Len(conts)) |->
        Row(cell_list(widths, conts[r], heights[r]), dec.v_div)]

\* the first of the rows' strs that is a raised exception
FirstRaised(row_strs) ==
    row_strs[CHOOSE r \in 1..Len(row_strs) :
                IsRaised(row_strs[r]) /\ \A q \in 1..(r - 1) : ~IsRaised(row_strs[q])]

\* zip_longest(rows, dividers, fillvalue="") and the final removesuffix
TableJoin(row_strs, dividers) ==
    IF \E r \in 1..Len(row_strs) : IsRaised(row_strs[r]) THEN FirstRaised(row_strs)
    ELSE removesuffix_nl(iter_join(row_strs, dividers))

\* Table.__str__
Table_str(dec, widths, conts, rws) ==
    TableJoin([r \in 1..Len(rws) |-> Row_str(rws[r])], div_lines(dec, widths, Len(conts)))

-----------------------------------------------------------------------------
(* Bounds and input sets *)

MaxRows == 2
MaxCells == 4
DecoRows == 3
DecoCols == 4
MaxCellHeight == 3
MaxCellWidth == 3
MaxPadLen == 3
MaxPadWidth == 7
MaxDen == 2

\* cell texts of a grid: "", "a", "ab\nc" and "a\n"
Texts == { << >>, << "a" >>, << "a", "b", NL, "c" >>, << "a", NL >> }

RECURSIVE SumSeq(_)
SumSeq(xs) == IF xs = << >> THEN 0 ELSE Head(xs) + SumSeq(Tail(xs))

\* the row lengths of the jagged grids: at most MaxRows rows, MaxCells cells
Shapes ==
    { sh \in UNION { [1..k -> 0..MaxCells] : k \in 0..MaxRows } : SumSeq(sh) <= MaxCells }

\* the grid of shape sh whose cells, row after row, are the texts of flat
GridOf(sh, flat) ==
    [r \in 1..Len(sh) |->
        [c \in 1..sh[r] |-> flat[SumSeq(SubSeq(sh, 1, r - 1)) + c]]]

\* the R x C grid whose cell (r, c) is "a" repeated (r + c) % 3 times
PatternGrid(R, C) ==
    [r \in 1..R |-> [c \in 1..C |-> StrTimes(<< "a" >>, (r + c) % 3)]]

Slices ==
    { slice(None, None, None), slice(Some(1), Some(-1), None),
      slice(Some(0), Some(0), None), slice(None, None, Some(2)),
      slice(None, None, Some(-1)) }

HChars == { << BOX_H >>, << "x" >> }
VChars == { << BOX_V >>, << "x" >> }
Defaults == { << SPACE >>, << >>, << "x" >> }

\* dividers whose default glyph is not their own glyph
Dividers(chars) ==
    { d \in { Divider(ch, sl, df) : ch \in chars, sl \in Slices, df \in Defaults } :
        d.default # d.char }

HDividers == Dividers(HChars)
VDividers == Dividers(VChars)

\* alignment ratios in [0, 1]
Ratios == { << n, d >> : n \in 0..MaxDen, d \in 1..MaxDen } \cap
          { r \in (0..MaxDen) \X (1..MaxDen) : r[1] <= r[2] }

Fills == { << SPACE >>, << "." >> }

\* the content of a stand-alone Cell: "", "a", "a\nb" and "a\nbb\nc"
CellTexts ==
    { << >>, << "a" >>, << "a", NL, "b" >>, << "a", NL, "b", "b", NL, "c" >> }

-----------------------------------------------------------------------------
(* The state machine: a caller builds and prints a Table, prints a Cell or *)
(* calls h_pad.                                                            *)

NoTable ==
    /\ data = << >>
    /\ tab_fmt = DefaultTableDecoration

NoCell == cell = << >>

NoPad == pad = << >>

Unbuilt ==
    /\ pc = "new"
    /\ error = ""
    /\ contents = << >>
    /\ row_heights = << >>
    /\ col_widths = << >>
    /\ rows = << >>
    /\ string = << >>

\* a jagged grid under the default decoration
InitJagged ==
    /\ entry = "Table"
    /\ \E sh \in Shapes :
         \E flat \in [1..SumSeq(sh) -> Texts] : data = GridOf(sh, flat)
    /\ tab_fmt = DefaultTableDecoration
    /\ NoCell /\ NoPad /\ Unbuilt

\* a rectangular grid under any pair of dividers
InitDecorated ==
    /\ entry = "Table"
    /\ \E R \in 1..DecoRows, C \in 1..DecoCols : data = PatternGrid(R, C)
    /\ \E h \in HDividers, v \in VDividers : tab_fmt = TableDecoration(h, v)
    /\ NoCell /\ NoPad /\ Unbuilt

InitCell ==
    /\ entry = "Cell"
    /\ \E t \in CellTexts, h \in 0..MaxCellHeight, w \in 0..MaxCellWidth,
          va \in Ratios, ha \in Ratios, f \in Fills :
         cell = Cell(Content(t), h, w, CellFormat(va, ha, f))
    /\ NoTable /\ NoPad /\ Unbuilt

InitPad ==
    /\ entry = "h_pad"
    /\ \E n \in 0..MaxPadLen, w \in 0..MaxPadWidth, a \in Ratios, f \in Fills :
         pad = [text |-> StrTimes(<< "a" >>, n), width |-> w, align |-> a, fill |-> f]
    /\ NoTable /\ NoCell /\ Unbuilt

Init == InitJagged \/ InitDecorated \/ InitCell \/ InitPad

\* Table.__init__
Table__init__ ==
    /\ entry = "Table"
    /\ pc = "new"
    /\ LET conts == get_content(data)
           heights == get_row_heights(conts)
           widths == get_col_widths(conts)
       IN  IF get_row_heights_raises(conts)
           THEN /\ pc' = "raised"
                /\ error' = ValueError[1]
                /\ UNCHANGED << contents, row_heights, col_widths, rows >>
           ELSE /\ pc' = "constructed"
                /\ contents' = conts
                /\ row_heights' = heights
                /\ col_widths' = widths
                /\ rows' = get_rows(tab_fmt, heights, widths, conts)
                /\ UNCHANGED error
    /\ UNCHANGED << entry, data, tab_fmt, cell, pad, string >>

\* str(table)
Table__str__ ==
    /\ entry = "Table"
    /\ pc = "constructed"
    /\ LET s == Table_str(tab_fmt, col_widths, contents, rows)
       IN  IF IsRaised(s)
           THEN pc' = "raised" /\ error' = s[1] /\ UNCHANGED string
           ELSE pc' = "done" /\ string' = s /\ UNCHANGED error
    /\ UNCHANGED << entry, data, tab_fmt, contents, row_heights, col_widths, rows,
                    cell, pad >>

\* str(cell)
Cell__str__ ==
    /\ entry = "Cell"
    /\ pc = "new"
    /\ LET s == Cell_str(cell)
       IN  IF IsRaised(s)
           THEN pc' = "raised" /\ error' = s[1] /\ UNCHANGED string
           ELSE pc' = "done" /\ string' = s /\ UNCHANGED error
    /\ UNCHANGED << entry, data, tab_fmt, contents, row_heights, col_widths, rows,
                    cell, pad >>

\* h_pad(text, width, align, fill)
Call_h_pad ==
    /\ entry = "h_pad"
    /\ pc = "new"
    /\ pc' = "done"
    /\ string' = h_pad(pad.text, pad.width, pad.align, pad.fill)
    /\ UNCHANGED << entry, error, data, tab_fmt, contents, row_heights, col_widths,
                    rows, cell, pad >>

Next == Table__init__ \/ Table__str__ \/ Cell__str__ \/ Call_h_pad

Spec == Init /\ [][Next]_vars

-----------------------------------------------------------------------------
(* Vocabulary of the properties *)

\* Table.__init__ returned: the table's attributes are set
Built ==
    /\ entry = "Table"
    /\ pc \in { "constructed", "done" } \/ (pc = "raised" /\ error = RuntimeError[1])

\* str(table) returned its text in string
Rendered == entry = "Table" /\ pc = "done"

\* str(cell) returned its text in string
CellDone == entry = "Cell" /\ pc = "done"

\* h_pad returned its text in string
PadDone == entry = "h_pad" /\ pc = "done"

\* the pieces of s between its line breaks (str.split("\n")): the lines of a
\* text whose lines are separated, not ended, by line breaks
RECURSIVE SplitNL(_)
SplitNLAt(s, i) ==
    IF i = 0 THEN << s >>
    ELSE << SubSeq(s, 1, i - 1) >> \o SplitNL(SubSeq(s, i + 1, Len(s)))

SplitNL(s) == SplitNLAt(s, FirstNL(s))

\* the number of lines the rows and the R - 1 row boundaries call for
LineCount == SumSeq(row_heights) + Len(data) - 1

\* the lines of the rendered text: none when none is called for
OutLines == IF LineCount = 0 THEN << >> ELSE SplitNL(string)

\* the number of lines before the first line of row r
RowStart(r) == SumSeq(SubSeq(row_heights, 1, r - 1)) + (r - 1)

\* the place among the lines of the tier between rows t and t + 1
TierIndex(t) == RowStart(t) + row_heights[t] + 1

NumCols == Len(col_widths)

\* parts joined by the glyph sep
JoinWith(parts, sep) ==
    Concat([i \in 1..Len(parts) |-> IF i < Len(parts) THEN parts[i] \o sep ELSE parts[i]])

\* divider div is active at position i (0-based) of n positions
ActiveAt(div, i, n) == i \in slice_positions(div.slices, n)

\* line l of cell c of row r, as the cell prints it
CellLine(r, c, l) == splitlines(Cell_str(rows[r].cells[c]))[l]

\* the length of the longest run of glyphs of a text free of line breaks
LongestRun(text) ==
    MaxOf([i \in 1..(Len(text) + 1) |->
             Cardinality({ j \in i..Len(text) : \A k \in i..j : text[k] # NL })])

Rectangular ==
    /\ Len(data) >= 1
    /\ Len(data[1]) >= 1
    /\ \A r \in 1..Len(data) : Len(data[r]) = Len(data[1])

-----------------------------------------------------------------------------
\* C1: for every grid of at least one row, all rows non-empty, and every
\* decoration, every line of the rendered text - cell lines and divider lines
\* alike - is as wide as the column widths plus the glyphs that
\* v_div.chars(numColumns - 1) places between adjacent cells.
C1_Width(chars) == SumSeq(col_widths) + SumSeq([b \in 1..Len(chars) |-> Len(chars[b])])

C1_AllLines(lines, width) == \A i \in 1..Len(lines) : Len(lines[i]) = width

\* C1: every line of a rendered table, cell lines and tier lines alike, has
\* the same width, empty default glyphs included.
C1_UniformLineWidth ==
    Rendered /\ Len(data) >= 1 =>
        C1_AllLines(OutLines, C1_Width(Divider_chars(tab_fmt.v_div, NumCols - 1)))

-----------------------------------------------------------------------------
\* C2: when str(table) returns, for a grid of R >= 1 non-empty rows, the text
\* is exactly sum(row_heights) + (R - 1) lines separated by line breaks with
\* no trailing line break, in the order: the lines of row 0, one tier line,
\* the lines of row 1, ..., the lines of row R - 1; a tier at which h_div is
\* inactive is one line like any other.
C2_RowLines(lines, start, row_lines) ==
    \A l \in 1..Len(row_lines) : lines[start + l] = row_lines[l]

C2_TierLines(lines, dividers) ==
    \A t \in 1..(Len(data) - 1) : lines[TierIndex(t)] \o << NL >> = dividers[t]

C2_Layout(lines) ==
    /\ Len(lines) = LineCount
    /\ LineCount = 0 => string = << >>
    /\ LineCount >= 1 => count_nl(string) = LineCount - 1
    /\ \A r \in 1..Len(data) :
         /\ Len(splitlines(Row_str(rows[r]))) = row_heights[r]
         /\ C2_RowLines(lines, RowStart(r), splitlines(Row_str(rows[r])))
    /\ C2_TierLines(lines, div_lines(tab_fmt, col_widths, Len(data)))

\* C2: a rendered table of R >= 1 rows is sum(row_heights) + R - 1 lines, each
\* row's lines followed by one tier line except after the last row.
C2_LineLayout == Rendered /\ Len(data) >= 1 => C2_Layout(OutLines)

\* three rows of which one is two lines high, printed with both tiers
C2_Witness ==
    /\ Rendered
    /\ Len(data) = 3
    /\ slice_positions(tab_fmt.h_div.slices, 2) = { }
    /\ SumSeq(row_heights) = 3
    /\ Len(OutLines) = 5

-----------------------------------------------------------------------------
\* C3: once a table is built, col_widths has as many entries as the longest
\* row has cells, in column order, and col_widths[c] is the greatest, over
\* the rows that have a cell in column c, of the length of the longest line
\* of that cell's text, whatever the order of short and long rows.
MaxRowLen == IF data = << >> THEN 0 ELSE MaxOf([r \in 1..Len(data) |-> Len(data[r])])

C3_ColumnMax(c) ==
    MaxOf([r \in 1..Len(data) |-> IF c <= Len(data[r]) THEN LongestRun(data[r][c]) ELSE 0])

\* C3: col_widths has one entry per column of the longest row, in column
\* order, each the longest line of any cell present in that column.
C3_ColWidths ==
    Built =>
        /\ Len(col_widths) = MaxRowLen
        /\ \A c \in 1..Len(col_widths) : col_widths[c] = C3_ColumnMax(c)

\* a short row before a longer one, whose second column holds "ab\nc"
C3_Witness ==
    /\ Built
    /\ Len(data) = 2
    /\ Len(data[1]) = 1
    /\ Len(data[2]) = 2
    /\ data[1][1] = << "a", "b", NL, "c" >>
    /\ data[2][1] = << "a" >>
    /\ data[2][2] = << "a", "b", NL, "c" >>
    /\ col_widths = << 2, 2 >>

-----------------------------------------------------------------------------
\* C4: once a table of non-empty rows is built, every Row has exactly
\* len(col_widths) cells; cell c of row r has width col_widths[c] and height
\* row_heights[r]; a cell beyond the row's own length holds empty content and
\* prints as row_heights[r] lines of col_widths[c] fill glyphs.
C4_BlankBlock(height, width) ==
    Concat([l \in 1..height |-> [i \in 1..width |-> SPACE] \o << NL >>])

C4_Cell(r, c, cl) ==
    /\ cl.width = col_widths[c]
    /\ cl.height = row_heights[r]
    /\ c > Len(data[r]) =>
         /\ cl.content.text = << >>
         /\ Cell_str(cl) = C4_BlankBlock(row_heights[r], col_widths[c])

C4_Row(r, cells) ==
    /\ Len(cells) = Len(col_widths)
    /\ \A c \in 1..Len(cells) : C4_Cell(r, c, cells[c])

\* C4: every built row has exactly len(col_widths) cells, and a cell missing
\* from the input prints as row_heights[r] lines of col_widths[c] fill glyphs.
C4_RowsPadded ==
    Built =>
        /\ Len(rows) = Len(data)
        /\ \A r \in 1..Len(rows) : C4_Row(r, rows[r].cells)

\* a three-cell row above a one-cell row that is two lines high
C4_Witness ==
    /\ Built
    /\ Len(data) = 2
    /\ Len(data[1]) = 3
    /\ data[2] = << << "a", "b", NL, "c" >> >>
    /\ Len(rows[2].cells) = 3
    /\ Cell_str(rows[2].cells[3]) = << SPACE, NL, SPACE, NL >>

-----------------------------------------------------------------------------
\* C5 (as claimed): with the default decoration the rendering of an R x C
\* grid starts with a top tier line, has an interior tier line between
\* adjacent rows and ends with a bottom tier line, each tier being left cap,
\* the columns' runs of the horizontal glyph joined by the tier's junction,
\* right cap, and every cell line is bounded and separated by the vertical
\* glyph.
C5_CappedTier(box, widths) ==
    << box[1] >>
    \o JoinWith([c \in 1..Len(widths) |-> StrTimes(<< BOX_H >>, widths[c])], << box[2] >>)
    \o << box[3] >>

C5_Boxed(lines) ==
    /\ Len(lines) = SumSeq(row_heights) + Len(data) + 1
    /\ lines[1] = C5_CappedTier(BOX_TOP, col_widths)
    /\ lines[Len(lines)] = C5_CappedTier(BOX_BOTTOM, col_widths)
    /\ \A t \in 1..(Len(data) - 1) :
         lines[TierIndex(t) + 1] = C5_CappedTier(BOX_CENTER, col_widths)
    /\ \A r \in 1..Len(data) : \A l \in 1..row_heights[r] :
         /\ Head(lines[RowStart(r) + l + 1]) = BOX_V
         /\ lines[RowStart(r) + l + 1][Len(lines[RowStart(r) + l + 1])] = BOX_V

\* C5: with the default decoration the rendering is boxed: a top tier, a
\* bottom tier, capped interior tiers and a vertical glyph at both line ends.
C5_BoxBorders ==
    Rendered /\ tab_fmt = DefaultTableDecoration /\ Rectangular => C5_Boxed(SplitNL(string))

\* C5 (amended): with the default decoration the rendering of an R x C grid
\* has no top tier, no bottom tier and no caps: it is the rows' lines with one
\* interior tier line between adjacent rows, each tier being the columns'
\* runs of the horizontal glyph joined by the interior junction, and on every
\* cell line the vertical glyph stands between adjacent cells and nowhere
\* else.
C5_InteriorTier(widths) ==
    JoinWith([c \in 1..Len(widths) |-> StrTimes(<< BOX_H >>, widths[c])], << BOX_CENTER[2] >>)

C5_CellLine(line, widths) ==
    /\ Len(line) = SumSeq(widths) + Len(widths) - 1
    /\ { i \in 1..Len(line) : line[i] = BOX_V } =
         { SumSeq(SubSeq(widths, 1, c)) + c : c \in 1..(Len(widths) - 1) }

C5_Unboxed(lines) ==
    /\ Len(lines) = LineCount
    /\ \A t \in 1..(Len(data) - 1) : lines[TierIndex(t)] = C5_InteriorTier(col_widths)
    /\ \A r \in 1..Len(data) : \A l \in 1..row_heights[r] :
         C5_CellLine(lines[RowStart(r) + l], col_widths)

\* C5 (amended): with the default decoration only the R - 1 interior tiers are
\* drawn, uncapped, and the vertical glyph stands between adjacent cells only.
C5_InteriorTiersOnly ==
    Rendered /\ tab_fmt = DefaultTableDecoration /\ Rectangular => C5_Unboxed(OutLines)

\* a 3 x 4 grid under the default decoration, printed
C5_Witness ==
    /\ Rendered
    /\ tab_fmt = DefaultTableDecoration
    /\ Rectangular
    /\ Len(data) = 3
    /\ Len(data[1]) = 4
    /\ Len(OutLines) = 5

-----------------------------------------------------------------------------
\* C6: for every Cell of k content lines and height h, with
\* start = floor((h - k) * v_align), output row x shows content line
\* x - start when start <= x < start + k and is a blank fill line otherwise,
\* also when h < k.
C6_Row(c, line, x, start, content_lines) ==
    line \o << NL >> =
        IF start <= x /\ x < start + Len(content_lines)
        THEN h_pad(content_lines[x - start + 1], c.width, c.fmt.h_align, c.fmt.fill)
        ELSE h_pad(<< >>, c.width, c.fmt.h_align, c.fmt.fill)

C6_Placement(c, lines, start, content_lines) ==
    /\ Len(lines) = c.height
    /\ \A x \in 0..(c.height - 1) : C6_Row(c, lines[x + 1], x, start, content_lines)

\* C6: row x of a printed cell shows content line x - start when that line
\* exists, start = floor(v_align * (height - content height)), else a blank.
C6_VerticalPlacement ==
    CellDone =>
        C6_Placement(cell, splitlines(string),
                     FloorMul(cell.fmt.v_align, cell.height - cell.content.height),
                     splitlines(Content_str(cell.content)))

-----------------------------------------------------------------------------
\* C7 (as claimed): for a line of length n and a width w >= n, h_pad puts
\* lpad = round(h_align * (w - n)) fill glyphs on the left and
\* rpad = w - n - lpad on the right.
\* round(align * n) for the ratio align, ties to the even integer
RoundMul(align, n) ==
    IF (2 * align[1] * n) % (2 * align[2]) = align[2]
    THEN 2 * (((align[1] * n) \div align[2] + 1) \div 2)
    ELSE (2 * align[1] * n + align[2]) \div (2 * align[2])

C7_Padded(s, text, fill, w, lpad) ==
    /\ Len(s) = w + 1
    /\ s[w + 1] = NL
    /\ \A i \in 1..lpad : << s[i] >> = fill
    /\ SubSeq(s, lpad + 1, lpad + Len(text)) = text
    /\ \A i \in (lpad + Len(text) + 1)..w : << s[i] >> = fill

\* C7: h_pad puts lpad = round(h_align * (w - n)) fill glyphs on the left and
\* w - n - lpad on the right.
C7_RoundedPad ==
    PadDone /\ pad.width >= Len(pad.text) =>
        C7_Padded(string, pad.text, pad.fill, pad.width,
                  RoundMul(pad.align, pad.width - Len(pad.text)))

\* C7 (amended): for a line of length n and a width w >= n, h_pad puts
\* lpad = floor(h_align * (w - n)) fill glyphs on the left and
\* rpad = w - n - lpad on the right, so the padded line is w glyphs wide.
C7_FlooredPad ==
    PadDone /\ pad.width >= Len(pad.text) =>
        C7_Padded(string, pad.text, pad.fill, pad.width,
                  FloorMul(pad.align, pad.width - Len(pad.text)))

\* "aaa" centred in width 6: one fill glyph on the left, two on the right
C7_Witness ==
    /\ PadDone
    /\ pad.text = << "a", "a", "a" >>
    /\ pad.width = 6
    /\ pad.align = << 1, 2 >>
    /\ pad.fill = << "." >>
    /\ string = << ".", "a", "a", "a", ".", ".", NL >>

-----------------------------------------------------------------------------
\* C8 (as claimed): when v_div's selector is slice(1, -1), for every grid of
\* C >= 2 columns every cell line has no divider glyph left of the first cell
\* or right of the last one, and carries v_div's glyph at every one of the
\* C - 1 boundaries between adjacent columns.
C8_Slices == slice(Some(1), Some(-1), None)

C8_Line(r, l, glyphs) ==
    Concat([c \in 1..NumCols |-> CellLine(r, c, l) \o ItemOr(glyphs, c)])

C8_Lines(lines, glyphs) ==
    /\ Len(lines) = LineCount
    /\ \A r \in 1..Len(data) : \A l \in 1..row_heights[r] :
         lines[RowStart(r) + l] = C8_Line(r, l, glyphs)

\* C8: with v_div's selector slice(1, -1) every one of the C - 1 boundaries
\* between adjacent columns carries v_div's glyph and no line has outer glyphs.
C8_AllBoundariesKept ==
    Rendered /\ tab_fmt.v_div.slices = C8_Slices /\ NumCols >= 2 =>
        C8_Lines(OutLines, [b \in 1..(NumCols - 1) |-> tab_fmt.v_div.char])

\* C8 (amended): when v_div's selector is slice(1, -1), for every grid of
\* C >= 2 columns every cell line has no divider glyph left of the first cell
\* or right of the last one; of the C - 1 boundaries between adjacent columns
\* the first and the last carry v_div's default glyph, and only the
\* boundaries between those two carry v_div's glyph.
C8_InnerBoundariesKept ==
    Rendered /\ tab_fmt.v_div.slices = C8_Slices /\ NumCols >= 2 =>
        C8_Lines(OutLines,
                 [b \in 1..(NumCols - 1) |->
                    IF 2 <= b /\ b <= NumCols - 2
                    THEN tab_fmt.v_div.char
                    ELSE tab_fmt.v_div.default])

\* four columns: the middle boundary alone carries the glyph
C8_Witness ==
    /\ Rendered
    /\ tab_fmt.v_div = Divider(<< BOX_V >>, C8_Slices, << >>)
    /\ data = PatternGrid(1, 4)
    /\ string = << "a", "a", BOX_V, "a", "a", "a" >>

-----------------------------------------------------------------------------
\* C9: for every grid and every valid configuration - the empty grid, a grid
\* with an empty row, empty cells, cells whose text ends with a line break -
\* building the table and printing it raise no error, and the empty grid and
\* grids of empty rows or empty cells only print as the empty string.
C9_AllEmpty == \A r \in 1..Len(data) : \A c \in 1..Len(data[r]) : data[r][c] = << >>

\* C9: neither building nor printing a table raises, and a grid without any
\* non-empty cell prints as the empty string.
C9_NeverRaises ==
    entry = "Table" =>
        /\ pc # "raised"
        /\ Rendered /\ C9_AllEmpty => string = << >>

-----------------------------------------------------------------------------
\* C10: for every pair of dividers, every tier t and every column boundary b,
\* the glyph div_lines places at (t, b) is the junction mid_bord.mid if and
\* only if h_div is active at tier t and v_div is active at boundary b; it is
\* h_div's glyph when only h_div is active there, v_div's glyph when only
\* v_div is, and the blank glyph when neither is.
C10_Expected(dec, h_active, v_active) ==
    IF h_active /\ v_active THEN dec.mid_bord.mid
    ELSE IF h_active THEN dec.h_div.char
    ELSE IF v_active THEN dec.v_div.char
    ELSE << SPACE >>

\* the place of the joint of boundary b (1-based) in a tier line whose runs
\* are made of the glyph run_glyph
C10_JointPos(b, run_glyph) == SumSeq(SubSeq(col_widths, 1, b)) * Len(run_glyph) + b

C10_Tier(line, t, h_chars) ==
    \A b \in 1..(NumCols - 1) :
        << line[C10_JointPos(b, h_chars[t])] >> =
            C10_Expected(tab_fmt,
                         ActiveAt(tab_fmt.h_div, t - 1, Len(data) - 1),
                         ActiveAt(tab_fmt.v_div, b - 1, NumCols - 1))

C10_Tiers(lines, h_chars) ==
    /\ Len(lines) = LineCount
    /\ \A t \in 1..(Len(data) - 1) : C10_Tier(lines[TierIndex(t)], t, h_chars)

\* C10: a tier crossing shows the interior junction iff h_div is active at the
\* tier and v_div at the boundary; else the active divider's glyph, else blank.
C10_JunctionIffBothActive ==
    Rendered /\ Len(data) >= 1 =>
        C10_Tiers(OutLines, Divider_chars(tab_fmt.h_div, Len(data) - 1))

====
